---- MODULE Spec2Model ----
(***************************************************************************)
(* The publish run of the Debian distributor                               *)
(* (plugins/pulp_deb/plugins/distributors/distributor.py): the step tree   *)
(* built by Publisher and ModulePublisher, the three unit-collection       *)
(* steps, MetadataStep.process_main (checksums, default release/component  *)
(* synthesis, pool layout, dists tree, Release files), the atomic          *)
(* directory publish and the listing-file steps.                           *)
(*                                                                         *)
(* One publish run is one behaviour.  The host's unit queries hand the     *)
(* collection steps one unit at a time; the units are drawn from the small *)
(* sets below.  The working directory is a map from paths to entries and   *)
(* starts empty.                                                           *)
(***************************************************************************)
EXTENDS Naturals, Sequences, FiniteSets, TLC

\* ------------------------------------------------------------------ bounds
MaxReleases == 2
MaxComps == 2
MaxPkgs == 2
\* total number of units (releases + components + packages) in the repository
MaxUnits == 3

\* ------------------------------------------------------------- input sets
\* Falsy codename/suite (None or ''), and the "no exception" marker.
None == ""
NoError == ""

Codenames == {None, "sid"}
Suites == {None, "stable"}
CompNames == {"main", "contrib"}
CompReleases == {"stable", "sid"}
Archs == {"all", "amd64", "i386"}
PkgIds == 1..MaxPkgs

\* A digest field is missing (None), holds the digest of the artifact
\* ("good"), or holds something else ("stale").
Digests == {None, "good", "stale"}

\* models.DebRelease: codename and suite.
DebRelease(codename, suite) == [codename |-> codename, suite |-> suite]

\* models.DebComponent: name, release and the list of package ids.
DebComponent(name, release, packages) ==
    [name |-> name, release |-> release, packages |-> packages]

\* models.DebPackage, the fields process_main reads and writes.  The
\* filename and the storage path of a package are determined by its id.
DebPackage(architecture, sha1, sha256, md5sum) ==
    [architecture |-> architecture, sha1 |-> sha1, sha256 |-> sha256,
     md5sum |-> md5sum]

\* The digest states a collected package record comes with: only the
\* sha256 of the unit key, all three correct, all three but outdated.
DigestProfiles ==
    { <<None, "good", None>>, <<"good", "good", "good">>,
      <<"stale", "stale", "stale">> }

\* Lists of package ids a component record can carry: the ids of a set,
\* in increasing order.
RECURSIVE SetToSeq(_)
SetToSeq(S) ==
    IF S = {} THEN <<>>
    ELSE LET m == CHOOSE x \in S : \A y \in S : x <= y
         IN <<m>> \o SetToSeq(S \ {m})

PkgLists == { SetToSeq(S) : S \in SUBSET PkgIds }

ReleaseItems == { DebRelease(c, s) : c \in Codenames, s \in Suites }
ComponentItems ==
    { DebComponent(n, r, l) : n \in CompNames, r \in CompReleases, l \in PkgLists }
PackageItems ==
    { DebPackage(a, d[1], d[2], d[3]) : a \in Archs, d \in DigestProfiles }

Range(s) == { s[i] : i \in 1..Len(s) }

\* ------------------------------------------------------------------ state
VARIABLES
    pc,                  \* position of the run in the step tree
    error,               \* the exception that failed the run, NoError if none
    canceled,            \* PluginStep.canceled, set by cancel_publish_repo
    release_units,       \* PublishDebReleaseStep.units
    comp_units,          \* PublishDebComponentStep.units
    unit_dict,           \* PublishDebStep.unit_dict
    supplied,            \* number of release and component records collected
    config,              \* the configuration keys read so far
    reads,               \* package ids whose artifact was read for checksums
    fs,                  \* the working directory: path -> entry
    rel_idx,             \* index of the release being processed
    comp_idx,            \* index of the component being processed
    release_name,        \* process_main's release_name
    release_meta_data,   \* process_main's release_meta_data
    release_meta_files,  \* process_main's release_meta_files
    released,            \* arguments of each write_release_file call
    listing_steps,       \* number of GenerateListingFileStep children
    published,           \* the atomic directory publish step has swapped
    listed               \* number of listing-file steps that have run

vars == <<pc, error, canceled, release_units, comp_units, unit_dict, supplied,
          config, reads, fs, rel_idx, comp_idx, release_name,
          release_meta_data, release_meta_files, released, listing_steps,
          published, listed>>

collected == <<release_units, comp_units, unit_dict>>
loopvars == <<rel_idx, comp_idx, release_name, release_meta_data,
              release_meta_files, released>>
pubvars == <<listing_steps, published, listed>>

EmptyMetaData ==
    [architectures |-> {}, components |-> {}, codename |-> None, suite |-> None,
     label |-> None]

\* Publisher.__init__: the step tree is built, nothing has run.  The
\* configuration is fixed for the run; the value of a key is drawn where the
\* run first depends on it (listing_steps: at the atomic publish step).
Init ==
    /\ pc = "publish_releases"
    /\ error = NoError
    /\ canceled = FALSE
    /\ release_units = <<>>
    /\ comp_units = <<>>
    /\ unit_dict = <<>>
    /\ supplied = [releases |-> 0, components |-> 0]
    /\ config = [publish_default_release |-> FALSE]
    /\ reads = {}
    /\ fs = <<>>
    /\ rel_idx = 0
    /\ comp_idx = 0
    /\ release_name = None
    /\ release_meta_data = EmptyMetaData
    /\ release_meta_files = <<>>
    /\ released = <<>>
    /\ listing_steps = 0
    /\ published = FALSE
    /\ listed = 0

\* ------------------------------------------------------- the step engine
\* StepOrder with the atomic publish step added before MetadataStep.
StepOrderPublishFirst ==
    <<"publish_releases", "publish_components", "publish_units",
      "atomic_publish", "metadata", "listing">>

\* Children of Publisher and ModulePublisher in add_child order; PluginStep
\* runs them one after the other.
StepOrder ==
    <<"publish_releases", "publish_components", "publish_units", "metadata",
      "atomic_publish", "listing">>

Terminal == {"FINISHED", "FAILED"}

\* The step the engine runs after a step has completed.
NextStep(step) ==
    LET i == CHOOSE k \in 1..Len(StepOrder) : StepOrder[k] = step
    IN IF i = Len(StepOrder) THEN "FINISHED" ELSE StepOrder[i + 1]

\* Positions at which the engine looks at the canceled flag: before a step
\* and between the items of a step.  Inside MetadataStep.process_main
\* nothing looks at it.  With the flag set the engine starts nothing more:
\* the run has ended there, canceled.
Boundaries ==
    {"publish_releases", "publish_components", "publish_units", "metadata",
     "atomic_publish", "listing"}

NumUnits == Len(release_units) + Len(comp_units) + Cardinality(DOMAIN unit_dict)

\* DebDistributor.cancel_publish_repo: sets the flag on every step.
cancel_publish_repo ==
    /\ pc \notin Terminal
    /\ ~canceled
    /\ canceled' = TRUE
    /\ UNCHANGED <<pc, error, collected, supplied, config, reads, fs, loopvars,
                   pubvars>>

Canceled == canceled /\ pc \in Boundaries

\* PublishDebReleaseStep.process_main
PublishDebReleaseStep_process_main(item) ==
    /\ pc = "publish_releases"
    /\ ~canceled
    /\ Len(release_units) < MaxReleases
    /\ NumUnits < MaxUnits
    /\ release_units' = Append(release_units, item)
    /\ supplied' = [supplied EXCEPT !.releases = @ + 1]
    /\ UNCHANGED <<pc, error, canceled, comp_units, unit_dict, config, reads, fs,
                   loopvars, pubvars>>

\* PublishDebComponentStep.process_main
PublishDebComponentStep_process_main(item) ==
    /\ pc = "publish_components"
    /\ ~canceled
    /\ Len(comp_units) < MaxComps
    /\ NumUnits < MaxUnits
    /\ comp_units' = Append(comp_units, item)
    /\ supplied' = [supplied EXCEPT !.components = @ + 1]
    /\ UNCHANGED <<pc, error, canceled, release_units, unit_dict, config, reads,
                   fs, loopvars, pubvars>>

\* PublishDebStep.process_main: unit_dict[item.id] = item.  The query hands
\* out the packages with ids 1, 2, ... in turn.
PublishDebStep_process_main(item) ==
    /\ pc = "publish_units"
    /\ ~canceled
    /\ Cardinality(DOMAIN unit_dict) < MaxPkgs
    /\ NumUnits < MaxUnits
    /\ unit_dict' = unit_dict @@ ((Cardinality(DOMAIN unit_dict) + 1) :> item)
    /\ UNCHANGED <<pc, error, canceled, release_units, comp_units, supplied,
                   config, reads, fs, loopvars, pubvars>>

\* A collection step has seen all its units: the next child starts.
CollectionStepDone ==
    /\ ~canceled
    /\ pc \in {"publish_releases", "publish_components", "publish_units"}
    /\ pc' = NextStep(pc)
    /\ UNCHANGED <<error, canceled, collected, supplied, config, reads, fs,
                   loopvars, pubvars>>

\* ------------------------------------------- MetadataStep.process_main
\* calculate_deb_checksums on the artifact of a package: its three digests.
calculate_deb_checksums(package) ==
    [sha1 |-> "good", sha256 |-> "good", md5sum |-> "good"]

\* The body of the checksum loop for one package.
WithChecksums(package) ==
    LET checksums == calculate_deb_checksums(package)
    IN [package EXCEPT !.sha1 = checksums.sha1, !.sha256 = checksums.sha256,
                       !.md5sum = checksums.md5sum]

\* The packages whose artifact the checksum loop reads.
ChecksumTargets(units) == DOMAIN units

\* The checksum loop over the packages in S.
ChecksumLoop(units, S) ==
    [p \in DOMAIN units |-> IF p \in S THEN WithChecksums(units[p]) ELSE units[p]]

\* AfterChecksums without the return of lines 302-303.
AfterChecksumsNoReturn(units) == "synthesize"

\* Lines 301-303: process_main returns if the repository is empty.
AfterChecksums(units) ==
    IF Cardinality(DOMAIN units) = 0 THEN NextStep("metadata") ELSE "synthesize"

\* Lines 293-303: the checksum loop, then the return on an empty repository.
MetadataChecksums ==
    /\ pc = "metadata"
    /\ ~canceled
    /\ unit_dict' = ChecksumLoop(unit_dict, ChecksumTargets(unit_dict))
    /\ reads' = ChecksumTargets(unit_dict)
    /\ pc' = AfterChecksums(unit_dict)
    /\ UNCHANGED <<error, canceled, release_units, comp_units, supplied, config,
                   fs, loopvars, pubvars>>

\* The artifact of package p cannot be read: the loop stops there, after the
\* packages in S (dictionary order), and the exception fails the run.
MetadataChecksumsFail ==
    /\ pc = "metadata"
    /\ ~canceled
    /\ \E p \in ChecksumTargets(unit_dict) :
         \E S \in SUBSET (ChecksumTargets(unit_dict) \ {p}) :
            /\ unit_dict' = ChecksumLoop(unit_dict, S)
            /\ reads' = S \cup {p}
    /\ pc' = "FAILED"
    /\ error' = "IOError"
    /\ UNCHANGED <<canceled, release_units, comp_units, supplied, config, fs,
                   loopvars, pubvars>>

\* AllPackageIds that misses the last id.
AllPackageIdsButLast(units) ==
    SetToSeq(DOMAIN units \ {Cardinality(DOMAIN units)})

\* [package_id for package_id in unit_dict]
AllPackageIds(units) == SetToSeq(DOMAIN units)

\* SynthesizeStable without the test of line 306.
SynthesizeStableAlways(releases, comps, units) ==
    [releases |-> Append(releases, DebRelease(None, "stable")),
     comps |-> Append(comps, DebComponent("main", "stable", AllPackageIds(units)))]

\* Lines 305-314: no release units, publish as stable/main.
SynthesizeStable(releases, comps, units) ==
    IF Len(releases) = 0
    THEN [releases |-> Append(releases, DebRelease(None, "stable")),
          comps |-> Append(comps, DebComponent("main", "stable", AllPackageIds(units)))]
    ELSE [releases |-> releases, comps |-> comps]

\* SynthesizeDefault assigning the default release and component lists
\* instead of appending to them.
SynthesizeDefaultAssign(releases, comps, units, publish_default_release) ==
    IF publish_default_release
    THEN [releases |-> <<DebRelease("default", "default")>>,
          comps |-> <<DebComponent("all", "default", AllPackageIds(units))>>]
    ELSE [releases |-> releases, comps |-> comps]

\* Lines 316-325: if configured, also publish as default/all.
SynthesizeDefault(releases, comps, units, publish_default_release) ==
    IF publish_default_release
    THEN [releases |-> Append(releases, DebRelease("default", "default")),
          comps |-> Append(comps, DebComponent("all", "default", AllPackageIds(units)))]
    ELSE [releases |-> releases, comps |-> comps]

MetadataSynthesize ==
    /\ pc = "synthesize"
    /\ \E publish_default_release \in BOOLEAN :
         LET s1 == SynthesizeStable(release_units, comp_units, unit_dict)
             s2 == SynthesizeDefault(s1.releases, s1.comps, unit_dict,
                                     publish_default_release)
         IN /\ release_units' = s2.releases
            /\ comp_units' = s2.comps
            /\ config' = [config EXCEPT !.publish_default_release =
                                            publish_default_release]
    /\ pc' = "pool"
    /\ UNCHANGED <<error, canceled, unit_dict, supplied, reads, fs, loopvars,
                   pubvars>>

\* ------------------------------------------------------ working directory
\* An entry of the working directory: a directory, a link to the artifact
\* of a package (pkgs = <<id>>), or a written file; pkgs is the list of
\* package records a Packages file (or its compressed copy) was written from.
Entry(kind, pkgs) == [kind |-> kind, pkgs |-> pkgs]

Ok(f) == [fs |-> f, err |-> NoError]
Raise(f, e) == [fs |-> f, err |-> e]

\* os.path.exists
Exists(f, path) == path \in DOMAIN f

\* os.mkdir: raises if the path exists.
Mkdir(f, path) ==
    IF Exists(f, path) THEN Raise(f, "OSError")
    ELSE Ok(f @@ (path :> Entry("dir", <<>>)))

\* os.makedirs: creates the missing ancestors too; raises if the leaf exists.
Makedirs(f, path) ==
    IF Exists(f, path) THEN Raise(f, "OSError")
    ELSE LET missing == { SubSeq(path, 1, k) : k \in 1..Len(path) } \ DOMAIN f
         IN Ok(f @@ [q \in missing |-> Entry("dir", <<>>)])

\* os.symlink(package.storage_path, destination_path)
Symlink(f, package_id, path) ==
    IF Exists(f, path) THEN Raise(f, "OSError")
    ELSE Ok(f @@ (path :> Entry("link", <<package_id>>)))

\* package.filename
Filename(package_id) == ToString(package_id)

pool_path == <<"pool">>
dists_path == <<"dists">>

\* ------------------------------------------------------------ pool layout
\* PoolLinks without the exists test of line 342.
RECURSIVE PoolLinksNoGuard(_, _, _, _)
PoolLinksNoGuard(f, component_path, packages, units) ==
    IF packages = <<>> THEN Ok(f)
    ELSE LET package_id == Head(packages)
         IN IF package_id \notin DOMAIN units THEN Raise(f, "KeyError")
            ELSE LET r == Symlink(f, package_id,
                                  Append(component_path, Filename(package_id)))
                 IN IF r.err # NoError THEN r
                    ELSE PoolLinksNoGuard(r.fs, component_path, Tail(packages),
                                          units)

\* Lines 339-343: the links of one component.
RECURSIVE PoolLinks(_, _, _, _)
PoolLinks(f, component_path, packages, units) ==
    IF packages = <<>> THEN Ok(f)
    ELSE LET package_id == Head(packages)
         IN IF package_id \notin DOMAIN units THEN Raise(f, "KeyError")
            ELSE LET destination_path ==
                         Append(component_path, Filename(package_id))
                     r == IF ~Exists(f, destination_path)
                          THEN Symlink(f, package_id, destination_path)
                          ELSE Ok(f)
                 IN IF r.err # NoError THEN r
                    ELSE PoolLinks(r.fs, component_path, Tail(packages), units)

\* Lines 332-343: pool/<component_name>/ and its links, for each component.
RECURSIVE PoolComponents(_, _, _)
PoolComponents(f, comps, units) ==
    IF comps = <<>> THEN Ok(f)
    ELSE LET component == Head(comps)
             component_path == Append(pool_path, component.name)
             d == IF ~Exists(f, component_path)
                  THEN Makedirs(f, component_path)
                  ELSE Ok(f)
         IN IF d.err # NoError THEN d
            ELSE LET r == PoolLinks(d.fs, component_path, component.packages,
                                    units)
                 IN IF r.err # NoError THEN r
                    ELSE PoolComponents(r.fs, Tail(comps), units)

\* Lines 327-329: the 'pool' folder.
PoolMkdir(f) == Mkdir(f, pool_path)

\* Lines 327-343.
PoolLayout(f, comps, units) ==
    LET r == PoolMkdir(f)
    IN IF r.err # NoError THEN r ELSE PoolComponents(r.fs, comps, units)

MetadataPool ==
    /\ pc = "pool"
    /\ LET r == PoolLayout(fs, comp_units, unit_dict)
       IN /\ fs' = r.fs
          /\ error' = r.err
          /\ pc' = IF r.err # NoError THEN "FAILED" ELSE "dists"
    /\ UNCHANGED <<canceled, collected, supplied, config, reads, loopvars,
                   pubvars>>

\* Lines 345-347: the 'dists' folder; then the loop over the releases.
MetadataDists ==
    /\ pc = "dists"
    /\ LET r == Mkdir(fs, dists_path)
       IN /\ fs' = r.fs
          /\ error' = r.err
          /\ pc' = IF r.err # NoError THEN "FAILED"
                   ELSE IF Len(release_units) = 0 THEN NextStep("metadata")
                   ELSE "release"
    /\ rel_idx' = 1
    /\ UNCHANGED <<canceled, collected, supplied, config, reads, comp_idx,
                   release_name, release_meta_data, release_meta_files,
                   released, pubvars>>

\* ------------------------------------------------------------- dists tree
\* The directory name of a release: lines 356-363.
ReleaseName(release) ==
    IF release.codename # None THEN release.codename
    ELSE IF release.suite # None THEN release.suite
    ELSE None

\* repo.id, the label of every Release file.
RepoId == "repo"

\* Writes (or overwrites) a file.
Put(f, path, entry) == (path :> entry) @@ f

\* metadata_files.write_packages_file: the Packages file of one
\* architecture bucket, and its path.
write_packages_file(f, arch_path, component_name, packages) ==
    LET path == Append(arch_path, "Packages")
    IN [fs |-> Put(f, path, Entry("Packages", packages)), path |-> path]

\* metadata_files.gzip_compress_file: <path>.gz beside the file.
gzip_compress_file(f, path) ==
    LET gz == [path EXCEPT ![Len(path)] = @ \o ".gz"]
    IN [fs |-> Put(f, gz, Entry("gz", f[path].pkgs)), path |-> gz]

\* metadata_files.bz2_compress_file: <path>.bz2 beside the file.
bz2_compress_file(f, path) ==
    LET bz2 == [path EXCEPT ![Len(path)] = @ \o ".bz2"]
    IN [fs |-> Put(f, bz2, Entry("bz2", f[path].pkgs)), path |-> bz2]

\* metadata_files.write_release_file: the Release file, and its path.
write_release_file(f, release_path, meta_data, meta_files) ==
    LET path == Append(release_path, "Release")
    IN [fs |-> Put(f, path, Entry("Release", <<>>)), path |-> path]

\* ReleaseFolder without the test of lines 364-365.
ReleaseFolderNoCheck(f, name) == Mkdir(f, Append(dists_path, name))

\* Lines 364-367: a release without a name is an error; else its folder.
ReleaseFolder(f, name) ==
    IF name = None THEN Raise(f, "RuntimeError")
    ELSE Mkdir(f, Append(dists_path, name))

\* The file accumulator kept from one release to the next.
PreviousMetaFiles == release_meta_files

\* Line 355: release_meta_files = [] at the top of every release.
EmptyMetaFiles == <<>>

\* Lines 350-367: the accumulators of a release, its name and its folder.
ReleaseBegin ==
    /\ pc = "release"
    /\ LET release == release_units[rel_idx]
           name == ReleaseName(release)
           r == ReleaseFolder(fs, name)
       IN /\ release_meta_data' =
                [EmptyMetaData EXCEPT !.codename = release.codename,
                                      !.suite = release.suite]
          /\ release_meta_files' = EmptyMetaFiles
          /\ release_name' = name
          /\ fs' = r.fs
          /\ error' = r.err
          /\ pc' = IF r.err # NoError THEN "FAILED"
                   ELSE IF Len(comp_units) = 0 THEN "release_end"
                   ELSE "component"
    /\ comp_idx' = 1
    /\ UNCHANGED <<canceled, collected, supplied, config, reads, rel_idx,
                   released, pubvars>>

\* Lines 382-386: arch_units, the packages of a component by architecture.
\* Ids not in unit_dict are skipped.
RECURSIVE GroupByArch(_, _, _)
GroupByArch(arch_units, packages, units) ==
    IF packages = <<>> THEN arch_units
    ELSE LET package_id == Head(packages)
             next ==
                 IF package_id \in DOMAIN units
                 THEN LET arch == units[package_id].architecture
                      IN IF arch \in DOMAIN arch_units
                         THEN [arch_units EXCEPT ![arch] = Append(@, package_id)]
                         ELSE arch_units @@ (arch :> <<package_id>>)
                 ELSE arch_units
         IN GroupByArch(next, Tail(packages), units)

\* FanOut without the extend of line 392.
FanOutNoExtend(arch_units) ==
    LET all_units == IF "all" \in DOMAIN arch_units THEN arch_units["all"]
                     ELSE <<>>
        others == DOMAIN arch_units \ {"all"}
    IN [arch \in others |-> arch_units[arch]] @@ ("all" :> all_units)

\* FanOut that adds 'all' again only if there are 'all' packages.
FanOutNoEmptyAll(arch_units) ==
    LET all_units == IF "all" \in DOMAIN arch_units THEN arch_units["all"]
                     ELSE <<>>
        others == DOMAIN arch_units \ {"all"}
    IN IF all_units = <<>> THEN [arch \in others |-> arch_units[arch]]
       ELSE [arch \in others |-> arch_units[arch] \o all_units]
            @@ ("all" :> all_units)

\* Lines 388-394: the 'all' packages are appended to every other
\* architecture and 'all' is added again.
FanOut(arch_units) ==
    LET all_units == IF "all" \in DOMAIN arch_units THEN arch_units["all"]
                     ELSE <<>>
        others == DOMAIN arch_units \ {"all"}
    IN [arch \in others |-> arch_units[arch] \o all_units]
       @@ ("all" :> all_units)

\* The arch_units of a component as the loop at line 397 sees them.
ArchUnits(component, units) == FanOut(GroupByArch(<<>>, component.packages, units))

\* Lines 398-413: the binary-<arch> folder of one bucket and its files.
ArchFolder(st, component_path, component_name, arch, packages) ==
    LET arch_path == Append(component_path, "binary-" \o arch)
        d == Mkdir(st.fs, arch_path)
        architectures == st.architectures \cup {arch}
    IN IF d.err # NoError
       THEN [st EXCEPT !.err = d.err, !.architectures = architectures]
       ELSE LET p == write_packages_file(d.fs, arch_path, component_name,
                                         packages)
                gz == gzip_compress_file(p.fs, p.path)
                bz2 == bz2_compress_file(gz.fs, p.path)
            IN [fs |-> bz2.fs, err |-> NoError,
                architectures |-> architectures,
                files |-> st.files \o <<p.path, gz.path, bz2.path>>]

\* Lines 397-413: the loop over arch_units.items(), in the order the
\* dictionary yields them.
RECURSIVE ArchFolders(_, _, _, _, _)
ArchFolders(st, component_path, component_name, arch_units, order) ==
    IF order = <<>> \/ st.err # NoError THEN st
    ELSE ArchFolders(ArchFolder(st, component_path, component_name,
                                Head(order), arch_units[Head(order)]),
                     component_path, component_name, arch_units, Tail(order))

\* The orders in which a dictionary with the keys S can yield them.
Orders(S) ==
    { s \in [1..Cardinality(S) -> S] : { s[i] : i \in 1..Cardinality(S) } = S }

\* Lines 370-413 for the component at comp_idx.
ComponentDists ==
    /\ pc = "component"
    /\ LET component == comp_units[comp_idx]
           after == IF comp_idx = Len(comp_units) THEN "release_end"
                    ELSE "component"
       IN IF component.release # release_name
          THEN /\ pc' = after
               /\ UNCHANGED <<error, fs, release_meta_data, release_meta_files>>
          ELSE LET component_path ==
                       <<"dists", release_name, component.name>>
                   d == Makedirs(fs, component_path)
                   arch_units == ArchUnits(component, unit_dict)
               IN \E order \in Orders(DOMAIN arch_units) :
                    LET st == IF d.err # NoError
                              THEN [fs |-> d.fs, err |-> d.err,
                                    architectures |->
                                        release_meta_data.architectures,
                                    files |-> release_meta_files]
                              ELSE ArchFolders(
                                     [fs |-> d.fs, err |-> NoError,
                                      architectures |->
                                          release_meta_data.architectures,
                                      files |-> release_meta_files],
                                     component_path, component.name,
                                     arch_units, order)
                    IN /\ fs' = st.fs
                       /\ error' = st.err
                       /\ release_meta_data' =
                            [release_meta_data EXCEPT
                               !.components = @ \cup {component.name},
                               !.architectures = st.architectures]
                       /\ release_meta_files' = st.files
                       /\ pc' = IF st.err # NoError THEN "FAILED" ELSE after
    /\ comp_idx' = comp_idx + 1
    /\ UNCHANGED <<canceled, collected, supplied, config, reads, rel_idx,
                   release_name, released, pubvars>>

\* Line 416: set.remove raises KeyError for a missing element.
RemoveAll(architectures) ==
    IF "all" \in architectures
    THEN [set |-> architectures \ {"all"}, err |-> NoError]
    ELSE [set |-> architectures, err |-> "KeyError"]

\* Lines 415-426: the Release file of the release and its signature; then
\* the next release, or the end of process_main.
ReleaseEnd ==
    /\ pc = "release_end"
    /\ LET rm == RemoveAll(release_meta_data.architectures)
           meta_data == [release_meta_data EXCEPT !.architectures = rm.set,
                                                  !.label = RepoId]
           after == IF rel_idx = Len(release_units) THEN NextStep("metadata")
                    ELSE "release"
       IN IF rm.err # NoError
          THEN /\ error' = rm.err
               /\ pc' = "FAILED"
               /\ UNCHANGED <<fs, release_meta_data, released>>
          ELSE LET w == write_release_file(fs, Append(dists_path, release_name),
                                           meta_data, release_meta_files)
               IN /\ fs' = w.fs
                  /\ release_meta_data' = meta_data
                  /\ released' = (release_name :>
                                    [meta_data |-> meta_data,
                                     meta_files |-> release_meta_files])
                                 @@ released
                  \* signer.sign: no signer or signed, or the signer raises
                  /\ \/ /\ pc' = after
                        /\ error' = error
                     \/ /\ pc' = "FAILED"
                        /\ error' = "SignError"
    /\ rel_idx' = rel_idx + 1
    /\ UNCHANGED <<canceled, collected, supplied, config, reads, comp_idx,
                   release_name, release_meta_files, pubvars>>

\* ------------------------------------------- publish and listing steps
\* AtomicDirectoryPublishStep: swaps the working directory into the
\* published locations, or fails.  Publisher.__init__ added one listing
\* step for each of publish_http and publish_https.
AtomicDirectoryPublish ==
    /\ pc = "atomic_publish"
    /\ ~canceled
    /\ \E http \in BOOLEAN, https \in BOOLEAN :
         listing_steps' = (IF http THEN 1 ELSE 0) + (IF https THEN 1 ELSE 0)
    /\ \/ /\ published' = TRUE
          /\ pc' = IF listing_steps' = 0 THEN "FINISHED"
                   ELSE NextStep("atomic_publish")
          /\ error' = error
       \/ /\ published' = published
          /\ pc' = "FAILED"
          /\ error' = "PublishError"
    /\ UNCHANGED <<canceled, collected, supplied, config, reads, fs, loopvars,
                   listed>>

\* GenerateListingFileStep.process_main
GenerateListingFileStep_process_main ==
    /\ pc = "listing"
    /\ ~canceled
    /\ listed < listing_steps
    /\ \/ /\ listed' = listed + 1
          /\ pc' = IF listed' = listing_steps THEN NextStep("listing")
                   ELSE "listing"
          /\ error' = error
       \/ /\ listed' = listed
          /\ pc' = "FAILED"
          /\ error' = "ListingError"
    /\ UNCHANGED <<canceled, collected, supplied, config, reads, fs, loopvars,
                   listing_steps, published>>

Next ==
    \/ cancel_publish_repo
    \/ \E item \in ReleaseItems : PublishDebReleaseStep_process_main(item)
    \/ \E item \in ComponentItems : PublishDebComponentStep_process_main(item)
    \/ \E item \in PackageItems : PublishDebStep_process_main(item)
    \/ CollectionStepDone
    \/ MetadataChecksums
    \/ MetadataChecksumsFail
    \/ MetadataSynthesize
    \/ MetadataPool
    \/ MetadataDists
    \/ ReleaseBegin
    \/ ComponentDists
    \/ ReleaseEnd
    \/ AtomicDirectoryPublish
    \/ GenerateListingFileStep_process_main

Spec == Init /\ [][Next]_vars

\* ----------------------------------------------------------------- claims
ReleaseNames == { ReleaseName(release_units[i]) : i \in 1..Len(release_units) }

\* The component at index j has been processed for the release named rn:
\* lines 370-413 ran for the pair without raising.
Processed(rn, j) ==
    /\ comp_units[j].release = rn
    /\ \/ rn \in DOMAIN released
       \/ pc \in {"component", "release_end"} /\ rn = release_name /\ j < comp_idx

ProcessedPairs ==
    { q \in (ReleaseNames \ {None}) \X (1..Len(comp_units)) : Processed(q[1], q[2]) }

ArchOf(package_id) == unit_dict[package_id].architecture

\* The packages of a list with architecture arch, in list order.
PkgsOfArch(packages, arch) ==
    SelectSeq(packages, LAMBDA p : p \in DOMAIN unit_dict /\ ArchOf(p) = arch)

PackagesPath(rn, component_name, arch) ==
    <<"dists", rn, component_name, "binary-" \o arch, "Packages">>

\* What the fan-out rule puts into the bucket of arch.
ExpectedBucket(packages, arch) ==
    IF arch = "all" THEN PkgsOfArch(packages, "all")
    ELSE PkgsOfArch(packages, arch) \o PkgsOfArch(packages, "all")

\* The architectures of the packages listed by the components of release rn.
ObservedArchs(rn) ==
    UNION { { ArchOf(p) : p \in Range(comp_units[j].packages) \cap DOMAIN unit_dict }
            : j \in { k \in 1..Len(comp_units) : comp_units[k].release = rn } }

\* C1: for every processed (release, component) pair, the Packages file of
\* an architecture A other than "all" is written from the component's
\* packages of architecture A followed by its "all" packages, and exists
\* whenever the component has a package of architecture A; the Packages
\* file of "all" is written from exactly the "all" packages; the
\* architectures handed to the Release file are the architectures of the
\* release's packages without "all".
C1_FanOut ==
    /\ \A q \in ProcessedPairs :
         LET c == comp_units[q[2]]
         IN \A arch \in Archs :
              LET path == PackagesPath(q[1], c.name, arch)
              IN /\ path \in DOMAIN fs
                      => fs[path].pkgs = ExpectedBucket(c.packages, arch)
                 /\ PkgsOfArch(c.packages, arch) # <<>> => path \in DOMAIN fs
                 /\ (arch # "all" /\ PkgsOfArch(c.packages, arch) = <<>>)
                      => path \notin DOMAIN fs
    /\ \A rn \in DOMAIN released :
         released[rn].meta_data.architectures = ObservedArchs(rn) \ {"all"}

\* C1 witness: a processed component with one amd64 and one all package:
\* binary-amd64 lists both, binary-all the all package, and the Release
\* file of the release was handed {"amd64"}.
C1_Witness ==
    \E q \in ProcessedPairs :
       LET c == comp_units[q[2]]
       IN /\ Len(c.packages) = 2
          /\ ArchOf(c.packages[1]) = "amd64"
          /\ ArchOf(c.packages[2]) = "all"
          /\ fs[PackagesPath(q[1], c.name, "amd64")].pkgs = c.packages
          /\ fs[PackagesPath(q[1], c.name, "all")].pkgs = <<c.packages[2]>>
          /\ q[1] \in DOMAIN released
          /\ released[q[1]].meta_data.architectures = {"amd64"}

\* C7 as claimed: a binary-<arch> directory (binary-all included) exists
\* only if its bucket has at least one package.
C7_NoEmptyArchDirs ==
    \A path \in DOMAIN fs : fs[path].kind = "Packages" => fs[path].pkgs # <<>>

\* C7 amended: a binary-<arch> directory of an architecture other than
\* "all" exists only if its bucket has at least one package; binary-all is
\* created for every processed (release, component) pair, with an empty
\* Packages file when the component has no "all" package.
C7_OnlyAllMayBeEmpty ==
    /\ \A path \in DOMAIN fs :
         (fs[path].kind = "Packages" /\ fs[path].pkgs = <<>>)
            => path[4] = "binary-all"
    /\ \A q \in ProcessedPairs :
         /\ <<"dists", q[1], comp_units[q[2]].name, "binary-all">> \in DOMAIN fs
         /\ PackagesPath(q[1], comp_units[q[2]].name, "all") \in DOMAIN fs

\* C7 witness: a processed component without "all" packages that has a
\* binary-amd64 bucket and an empty binary-all bucket.
C7_Witness ==
    \E q \in ProcessedPairs :
       LET c == comp_units[q[2]]
       IN /\ PkgsOfArch(c.packages, "all") = <<>>
          /\ PackagesPath(q[1], c.name, "amd64") \in DOMAIN fs
          /\ fs[PackagesPath(q[1], c.name, "all")].pkgs = <<>>

\* The pool entries of a working directory.
PoolEntries(f) == { path \in DOMAIN f : path[1] = "pool" }

\* C2 as claimed: after the pool layout has run, running it again on the
\* same working directory with the same components and packages does not
\* raise and leaves the same pool entries.
C2_PoolLayoutIdempotent ==
    pc = "dists" =>
       LET again == PoolLayout(fs, comp_units, unit_dict)
       IN /\ again.err = NoError
          /\ PoolEntries(again.fs) = PoolEntries(fs)

\* C2 amended: the second run raises at the creation of pool/, which
\* exists, and leaves the working directory as it was; the part after it
\* (component directories and links) is idempotent: run again on the same
\* tree it does not raise and changes no entry.
C2_PoolBodyIdempotent ==
    pc = "dists" =>
       LET again == PoolLayout(fs, comp_units, unit_dict)
           body == PoolComponents(fs, comp_units, unit_dict)
       IN /\ again.err = "OSError"
          /\ again.fs = fs
          /\ body.err = NoError
          /\ body.fs = fs

\* C2 witness: the pool layout has run for two components of the same name
\* that list the same package, so that directory and link existed already
\* when the second was laid out.
C2_Witness ==
    /\ pc = "dists"
    /\ \E i, j \in 1..Len(comp_units) :
          /\ i < j
          /\ comp_units[i].name = comp_units[j].name
          /\ Range(comp_units[i].packages) \cap Range(comp_units[j].packages) # {}
    /\ \E path \in DOMAIN fs : fs[path].kind = "link"

MetadataErrors == {"IOError", "KeyError", "OSError", "RuntimeError", "SignError"}

\* C3: with an empty package set process_main completes without error and
\* creates nothing: the working directory stays empty (no pool/, no
\* dists/), no release and no component is synthesized, and the run goes
\* straight from the start of MetadataStep to the step after it.
C3_EmptyRepository ==
    DOMAIN unit_dict = {} =>
       /\ DOMAIN fs = {}
       /\ Len(release_units) = supplied.releases
       /\ Len(comp_units) = supplied.components
       /\ error \notin MetadataErrors
       /\ pc \in {"publish_releases", "publish_components", "publish_units",
                  "metadata", "atomic_publish", "listing", "FINISHED", "FAILED"}

\* C3 witness: MetadataStep has completed for an empty package set with a
\* release record and a component record supplied.
C3_Witness ==
    /\ pc = "atomic_publish"
    /\ DOMAIN unit_dict = {}
    /\ Len(release_units) > 0
    /\ Len(comp_units) > 0
    /\ DOMAIN fs = {}

\* The synthesis step (lines 305-325) has run.
SynthDone ==
    /\ DOMAIN unit_dict # {}
    /\ \/ pc \in {"pool", "dists", "release", "component", "release_end",
                  "atomic_publish", "listing", "FINISHED"}
       \/ pc = "FAILED" /\ error # "IOError"

StableReleases == { i \in 1..Len(release_units) : release_units[i].suite = "stable" }
MainComponents == { j \in 1..Len(comp_units) : comp_units[j].name = "main" }
SynthReleases == { i \in 1..Len(release_units) : i > supplied.releases }
SynthComponents == { j \in 1..Len(comp_units) : j > supplied.components }

\* When a release record was supplied, neither a "stable" release nor a
\* "main" component is synthesized.
NoStableMainSynthesized ==
    supplied.releases > 0 =>
       /\ \A i \in SynthReleases : release_units[i].suite # "stable"
       /\ \A j \in SynthComponents : comp_units[j].name # "main"

\* C4 as claimed: with zero release records and a non-empty package set S,
\* after synthesis there is exactly one release with suite "stable" and
\* exactly one component named "main", of release "stable" and with package
\* set S; with a release record supplied nothing of the two is synthesized.
C4_DefaultSynthesis ==
    SynthDone =>
       /\ supplied.releases = 0 =>
            /\ Cardinality(StableReleases) = 1
            /\ Cardinality(MainComponents) = 1
            /\ \A j \in MainComponents :
                  /\ comp_units[j].release = "stable"
                  /\ Range(comp_units[j].packages) = DOMAIN unit_dict
       /\ NoStableMainSynthesized

\* C4 amended: with zero release records and a non-empty package set S,
\* after synthesis there is exactly one release with suite "stable", and
\* exactly one of the components appended by synthesis is named "main": the
\* first appended, of release "stable" and with package set S (supplied
\* components named "main" stay beside it); with a release record supplied
\* nothing of the two is synthesized.
C4_DefaultSynthesisAppended ==
    SynthDone =>
       /\ supplied.releases = 0 =>
            /\ Cardinality(StableReleases) = 1
            /\ Cardinality(MainComponents \cap SynthComponents) = 1
            /\ Cardinality(MainComponents) =
                  1 + Cardinality(MainComponents \ SynthComponents)
            /\ LET c == comp_units[supplied.components + 1]
               IN /\ c.name = "main"
                  /\ c.release = "stable"
                  /\ Range(c.packages) = DOMAIN unit_dict
       /\ NoStableMainSynthesized

\* C4 witness: synthesis has run with no release record and a supplied
\* component named "main".
C4_Witness ==
    /\ SynthDone
    /\ supplied.releases = 0
    /\ \E j \in MainComponents : j <= supplied.components
    /\ Cardinality(MainComponents) = 2

Unnamed == { i \in 1..Len(release_units) : ReleaseName(release_units[i]) = None }

\* process_main has returned without raising.
MetadataCompleted == pc \in {"atomic_publish", "listing", "FINISHED"}
                     \/ (pc = "FAILED" /\ error \notin MetadataErrors)

\* C5 as claimed: with a release record that has neither codename nor
\* suite, process_main does not complete: it fails.
C5_UnnamedReleaseFails ==
    Unnamed # {} => ~MetadataCompleted

\* C5 amended: with a non-empty package set and a release record that has
\* neither codename nor suite, process_main never completes; no directory
\* is ever made under dists/ for a release without a name; and when the
\* RuntimeError is raised the run has failed at that release with empty
\* accumulators, everything under dists/ belongs to the releases before it,
\* and exactly these have a Release file.
C5_UnnamedReleaseFailsNonEmpty ==
    /\ (Unnamed # {} /\ DOMAIN unit_dict # {}) => ~MetadataCompleted
    /\ \A path \in DOMAIN fs :
          (path[1] = "dists" /\ Len(path) >= 2) => path[2] # None
    /\ error = "RuntimeError" =>
          /\ pc = "FAILED"
          /\ rel_idx \in Unnamed
          /\ release_meta_files = <<>>
          /\ release_meta_data.components = {}
          /\ release_meta_data.architectures = {}
          /\ \A path \in DOMAIN fs :
                (path[1] = "dists" /\ Len(path) >= 2) =>
                   \E i \in 1..(rel_idx - 1) :
                      ReleaseName(release_units[i]) = path[2]
          /\ DOMAIN released =
                { ReleaseName(release_units[i]) : i \in 1..(rel_idx - 1) }
          /\ Cardinality(DOMAIN released) = rel_idx - 1

\* C5 witness: the run failed with the RuntimeError at a release without a
\* name while a later release was still to be processed.
C5_Witness ==
    /\ error = "RuntimeError"
    /\ pc = "FAILED"
    /\ rel_idx < Len(release_units)
    /\ <<"dists">> \in DOMAIN fs

\* C9 as claimed: after synthesis every package is listed by a component
\* whose release is the directory name of some release.
Covered(package_id) ==
    \E j \in 1..Len(comp_units) :
       /\ package_id \in Range(comp_units[j].packages)
       /\ comp_units[j].release \in ReleaseNames

C9_SynthesisCoverage ==
    SynthDone => \A package_id \in DOMAIN unit_dict : Covered(package_id)

\* C9 amended: after synthesis every package is listed by a component whose
\* release is the directory name of some release, provided no release
\* record was supplied or publish_default_release is set.
C9_SynthesisCoverageWhenSynthesized ==
    (SynthDone /\ (supplied.releases = 0 \/ config.publish_default_release))
       => \A package_id \in DOMAIN unit_dict : Covered(package_id)

\* C9 witness: synthesis has run without supplied releases, with a
\* supplied component that lists no package and matches no release.
C9_Witness ==
    /\ SynthDone
    /\ supplied.releases = 0
    /\ supplied.components > 0
    /\ \A j \in 1..supplied.components :
          /\ comp_units[j].packages = <<>>
          /\ comp_units[j].release \notin ReleaseNames
    /\ \A package_id \in DOMAIN unit_dict : Covered(package_id)

\* The working tree is fully built: empty for an empty repository; else
\* pool/ with the directory and the links of every component, and dists/
\* with a Release file written (and signed without error) for every release.
WorkingTreeBuilt ==
    IF DOMAIN unit_dict = {} THEN DOMAIN fs = {}
    ELSE /\ pool_path \in DOMAIN fs
         /\ dists_path \in DOMAIN fs
         /\ \A j \in 1..Len(comp_units) :
               /\ <<"pool", comp_units[j].name>> \in DOMAIN fs
               /\ \A p \in Range(comp_units[j].packages) :
                     <<"pool", comp_units[j].name, Filename(p)>> \in DOMAIN fs
         /\ \A i \in 1..Len(release_units) :
               /\ ReleaseName(release_units[i]) # None
               /\ <<"dists", ReleaseName(release_units[i]), "Release">>
                     \in DOMAIN fs
               /\ ReleaseName(release_units[i]) \in DOMAIN released
         /\ rel_idx = Len(release_units) + 1

\* C6: the atomic publish step swaps only from the position after
\* MetadataStep, with no error and no cancellation, and then the working
\* tree is fully built; a run that has failed or was canceled before the
\* swap never swaps; a listing-file step runs only after the swap.
C6_NoPartialPublish ==
    /\ [](published =>
            /\ WorkingTreeBuilt
            /\ error \notin (MetadataErrors \cup {"PublishError"})
            /\ pc \in {"listing", "FINISHED", "FAILED"})
    /\ [](listed > 0 => published)
    /\ [][(~published /\ published') =>
            (pc = "atomic_publish" /\ ~canceled /\ error = NoError)]_vars
    /\ [][((canceled \/ pc = "FAILED") /\ ~published) => ~published']_vars
    /\ [][listed' # listed => (published /\ pc = "listing" /\ ~canceled)]_vars

\* C6 witness: a run over a non-empty repository finished: the swap was
\* done from a built tree with a Release file, and both listing steps ran.
C6_Witness ==
    /\ pc = "FINISHED"
    /\ published
    /\ listed = 2
    /\ DOMAIN unit_dict # {}
    /\ DOMAIN released # {}
    /\ WorkingTreeBuilt

\* process_main has returned without raising, for a non-empty repository.
MetadataSucceeded == MetadataCompleted /\ DOMAIN unit_dict # {}

HasLink(j, package_id) ==
    <<"pool", comp_units[j].name, Filename(package_id)>> \in DOMAIN fs

\* The buckets of component c that the architecture of a package and the
\* fan-out rule imply for it.
ImpliedBuckets(c, package_id) ==
    IF ArchOf(package_id) = "all"
    THEN {"all"} \cup { ArchOf(q) : q \in Range(c.packages) }
    ELSE {ArchOf(package_id)}

\* The buckets of (release rn, component c) whose Packages file lists a package.
IndexedIn(rn, c, package_id) ==
    { arch \in Archs :
         /\ PackagesPath(rn, c.name, arch) \in DOMAIN fs
         /\ package_id \in Range(fs[PackagesPath(rn, c.name, arch)].pkgs) }

\* C8 as claimed: after a successful process_main every package linked
\* under pool/<component> is indexed under dists/ for its component, in
\* exactly the implied buckets; also for a component whose release is the
\* directory name of no release.
C8_PoolIndexConsistency ==
    MetadataSucceeded =>
       \A j \in 1..Len(comp_units) :
          \A p \in Range(comp_units[j].packages) :
             HasLink(j, p) =>
                /\ comp_units[j].release \in ReleaseNames
                /\ IndexedIn(comp_units[j].release, comp_units[j], p)
                      = ImpliedBuckets(comp_units[j], p)

\* C8 amended: after a successful process_main every package linked under
\* pool/<component> is, for every component listing it whose release is
\* the directory name of a release, indexed in exactly the implied
\* buckets; a component whose release is the directory name of no release
\* has its pool entries and nothing under dists/.
C8_PoolIndexConsistencyMatched ==
    MetadataSucceeded =>
       \A j \in 1..Len(comp_units) :
          \A p \in Range(comp_units[j].packages) :
             /\ HasLink(j, p)
             /\ comp_units[j].release \in ReleaseNames
                   => IndexedIn(comp_units[j].release, comp_units[j], p)
                         = ImpliedBuckets(comp_units[j], p)
             /\ comp_units[j].release \notin ReleaseNames
                   => \A path \in DOMAIN fs :
                         (path[1] = "dists" /\ Len(path) >= 2)
                            => path[2] # comp_units[j].release

\* C8 witness: process_main succeeded with a component that matches no
\* release and has a pool entry, beside an indexed "all" package.
C8_Witness ==
    /\ MetadataSucceeded
    /\ \E j \in 1..Len(comp_units) :
          /\ comp_units[j].release \notin ReleaseNames
          /\ \E p \in Range(comp_units[j].packages) : HasLink(j, p)
    /\ \E j \in 1..Len(comp_units) :
          \E p \in Range(comp_units[j].packages) :
             /\ comp_units[j].release \in ReleaseNames
             /\ ArchOf(p) = "all"
             /\ IndexedIn(comp_units[j].release, comp_units[j], p) = {"all"}

\* A package record lacks one of sha1, sha256, md5sum.
Lacking(package) ==
    package.sha1 = None \/ package.sha256 = None \/ package.md5sum = None

\* C10: the checksum step reads the artifact of exactly the package
\* records lacking a digest (of no other, if a read fails), and a record
\* that carries all three keeps its values.
C10_ChecksumOnlyMissing ==
    [][(pc = "metadata" /\ pc' # "metadata") =>
          LET lacking == { p \in DOMAIN unit_dict : Lacking(unit_dict[p]) }
          IN /\ reads' \subseteq lacking
             /\ pc' # "FAILED" => reads' = lacking
             /\ \A p \in DOMAIN unit_dict \ lacking :
                   unit_dict'[p] = unit_dict[p]]_vars

\* What lines 305-325 may append for the package set units: the stable
\* release with its main component, the default release with its all
\* component, each component listing every known package.
StableAppendix(units) ==
    [releases |-> <<DebRelease(None, "stable")>>,
     comps |-> <<DebComponent("main", "stable", AllPackageIds(units))>>]

DefaultAppendix(units) ==
    [releases |-> <<DebRelease("default", "default")>>,
     comps |-> <<DebComponent("all", "default", AllPackageIds(units))>>]

NoAppendix == [releases |-> <<>>, comps |-> <<>>]

\* C11: the synthesis step only adds. The release and component records
\* collected from the host are, unchanged and in place, a prefix of the
\* lists after the step; what follows the prefix is at most the stable
\* release with its main component and then, exactly when
\* publish_default_release is set, the default release (codename and suite
\* "default") with its all component listing every known package; no later
\* step of the run changes the two lists.
C11_SynthesisOnlyAdds ==
    [][/\ (pc = "synthesize" /\ pc' = "pool") =>
             LET nr == Len(release_units)
                 nc == Len(comp_units)
                 stable == IF Len(release_units') > nr
                              /\ release_units'[nr + 1] = DebRelease(None, "stable")
                           THEN StableAppendix(unit_dict) ELSE NoAppendix
                 default == IF config'.publish_default_release
                            THEN DefaultAppendix(unit_dict) ELSE NoAppendix
             IN /\ nr = supplied.releases /\ nc = supplied.components
                /\ release_units' = release_units \o stable.releases \o default.releases
                /\ comp_units' = comp_units \o stable.comps \o default.comps
       /\ pc \notin {"publish_releases", "publish_components", "synthesize"} =>
             UNCHANGED <<release_units, comp_units>>]_vars

\* C11 witness: synthesis ran over a supplied release and a supplied
\* component with publish_default_release set, and default/all follows them.
C11_Witness ==
    /\ SynthDone
    /\ supplied.releases > 0 /\ supplied.components > 0
    /\ config.publish_default_release
    /\ Len(release_units) = supplied.releases + 1
    /\ Len(comp_units) = supplied.components + 1
    /\ release_units[Len(release_units)] = DebRelease("default", "default")
    /\ comp_units[Len(comp_units)] =
          DebComponent("all", "default", AllPackageIds(unit_dict))

\* The Packages paths of the architecture buckets materialized for the
\* components of the release named rn.
BucketsOf(rn) ==
    { PackagesPath(rn, comp_units[q[1]].name, q[2]) :
        q \in { r \in (1..Len(comp_units)) \X Archs :
                  /\ comp_units[r[1]].release = rn
                  /\ r[2] \in DOMAIN ArchUnits(comp_units[r[1]], unit_dict) } }

\* The file of the given name beside the file at path.
Beside(path, name) == [path EXCEPT ![Len(path)] = name]

\* C12: the list of index files handed to write_release_file for a release
\* consists of consecutive triples Packages, Packages.gz, Packages.bz2 of
\* one bucket each, in that order; the buckets are exactly the architecture
\* buckets materialized for the components of that release, each once, all
\* three files exist, and no entry lies under another release's folder.
C12_ReleaseScopedFiles ==
    \A rn \in DOMAIN released :
       LET files == released[rn].meta_files
           n == Cardinality(BucketsOf(rn))
       IN /\ Len(files) = 3 * n
          /\ \A k \in 0..(n - 1) :
                /\ files[3 * k + 1] \in BucketsOf(rn)
                /\ files[3 * k + 2] = Beside(files[3 * k + 1], "Packages.gz")
                /\ files[3 * k + 3] = Beside(files[3 * k + 1], "Packages.bz2")
          /\ { files[3 * k + 1] : k \in 0..(n - 1) } = BucketsOf(rn)
          /\ \A i \in 1..Len(files) :
                /\ files[i] \in DOMAIN fs
                /\ files[i][1] = "dists" /\ files[i][2] = rn

\* C12 witness: two Release files have been written, each from a non-empty
\* file list, one of them from the files of two buckets.
C12_Witness ==
    \E rn1, rn2 \in DOMAIN released :
       /\ rn1 # rn2
       /\ Len(released[rn1].meta_files) >= 6
       /\ Len(released[rn2].meta_files) >= 3

\* No component record belongs to the release named rn.
Unmatched(rn) == \A j \in 1..Len(comp_units) : comp_units[j].release # rn

\* C13: a release that has a name but no component whose release field
\* equals it does not make the publish fail: at the end of its iteration
\* process_main raises nothing of its own (only the signer may), has
\* written the Release file of the release from empty component and
\* architecture sets and an empty file list, and goes on to the next
\* release or, after the last one, to the next step.
C13_UnmatchedReleaseWritten ==
    [][(pc = "release_end" /\ pc' # "release_end" /\ Unmatched(release_name)) =>
          /\ error' \in {NoError, "SignError"}
          /\ <<"dists", release_name, "Release">> \in DOMAIN fs'
          /\ release_name \in DOMAIN released'
          /\ released'[release_name].meta_data.components = {}
          /\ released'[release_name].meta_data.architectures = {}
          /\ released'[release_name].meta_files = <<>>
          /\ error' = NoError =>
                pc' = IF rel_idx = Len(release_units) THEN NextStep("metadata")
                      ELSE "release"]_vars

====
